---- MODULE Spec2Model ----
(***************************************************************************)
(* The training controller and the evaluator of WaDIQaM.py.                *)
(*                                                                         *)
(* The script is one sequential program.  Its state is the set of Python   *)
(* variables of __main__, the network object, and the files it writes.     *)
(* pc is the position in the script; every action is the block of source   *)
(* lines named in its comment.                                             *)
(*                                                                         *)
(* Conventions.                                                            *)
(*   - A Python name that is not bound yet, or a file that does not exist, *)
(*     is the empty sequence <<>>; a bound record / an existing file is a  *)
(*     one-element sequence <<r>>.                                         *)
(*   - A Python float obtained by a division is kept exact, as the pair    *)
(*     <<numerator, denominator>>.                                         *)
(*   - The dataset provider, the network and the optimizer are external.   *)
(*     The loaders are fixed sequences.  The parameters of the network are *)
(*     a value theta of Theta together with the number of optimizer steps  *)
(*     that produced them (id); an optimizer step may leave any theta; a   *)
(*     forward pass is a function of theta and of the item.                *)
(***************************************************************************)
EXTENDS Integers, Sequences, FiniteSets

\* ------------------------------------------------------------------ bounds
\* conf['n_epochs'] ranges over 0..MaxEpochs
MaxEpochs == 5
\* number of batches the train loader yields in an epoch
NTrain == 2
\* number of items of the validation split
NVal == 2
\* number of items of the test split
NTest == 2
\* longest input of measure in SpecMeasure
MaxLen == 3

\* ------------------------------------------------------- program constants
\* best_val_criterion = 10000
InitialBest == 10000
\* epoch > conf['n_epochs']/6
WarmupDivisor == 6

\* ---------------------------------------------------------------- helpers
Undef == <<>>

\* exact quotient a/b of a Python true division, b > 0
Div(a, b) == <<a, b>>

\* x < y on exact quotients
Less(x, y) == x[1] * y[2] < y[1] * x[2]

Abs(x) == IF x < 0 THEN -x ELSE x

\* Exceeds with >= in place of >
Exceeds_NonStrict(sq, q, sq_std) ==
    [k \in 1..Len(sq) |-> IF Abs(sq[k] - q[k]) >= 2 * sq_std[k] THEN 1 ELSE 0]

\* np.abs(sq - q) > 2*sq_std, elementwise: the boolean vector as 0/1
Exceeds(sq, q, sq_std) ==
    [k \in 1..Len(sq) |-> IF Abs(sq[k] - q[k]) > 2 * sq_std[k] THEN 1 ELSE 0]

\* (sq - q) ** 2, elementwise
SquaredError(sq, q) ==
    [k \in 1..Len(sq) |-> (sq[k] - q[k]) * (sq[k] - q[k])]

RECURSIVE Sum(_)
Sum(v) == IF Len(v) = 0 THEN 0 ELSE v[1] + Sum(Tail(v))

\* ndarray.mean()
Mean(v) == Div(Sum(v), Len(v))

\* measure(sq, q, sq_std): <<rmse, outlier_ratio>>.  rmse is kept as its
\* square (the mean squared error), outlier_ratio as an exact quotient.  The
\* three scipy correlation coefficients are library calls on the same two
\* vectors and are not part of the model.
measure(sq, q, sq_std) ==
    << Mean(SquaredError(sq, q)), Mean(Exceeds(sq, q, sq_std)) >>

\* "{:.4f}".format(x) of an exact quotient: x in units of 1e-4, rounded to
\* the nearest unit.  "{:.2f}%".format(x*100) is the same number of units.
Format4(x) == (2 * 10000 * x[1] + x[2]) \div (2 * x[2])

\* UpdateCondition with val_loss <= best_val_criterion
UpdateCondition_NonStrict(loss, best, e, n) ==
    /\ ~Less(best, loss)
    /\ Less(Div(n, WarmupDivisor), Div(e, 1))

\* val_loss < best_val_criterion and epoch > conf['n_epochs']/6
\* (epoch is an integer, so the floor of Python 2's / and the true quotient
\* of Python 3's / admit the same epochs)
UpdateCondition(loss, best, e, n) ==
    /\ Less(loss, best)
    /\ Less(Div(n, WarmupDivisor), Div(e, 1))

\* "Val results: ..." as printed and written (lines 177-183, 188-194)
ValLine(loss, or) == [loss |-> Format4(loss), OR |-> Format4(or)]

\* "Test results: ..." as printed and written (lines 196-209)
TestLine(loss, or) == [loss |-> Format4(loss), OR |-> Format4(or)]

\* ------------------------------------------------------------- collaborators
\* DataLoader over the validation split: data[2] = sq, data[3] = sq_std
valloader == [k \in 1..NVal |-> [sq |-> 2 * k, sq_std |-> 1 + (k % 2)]]

\* DataLoader over the test split
testloader == [k \in 1..NTest |-> [sq |-> 2 * k + 1, sq_std |-> 1]]

\* DataLoader over the training split, one entry per batch
trainloader == [k \in 1..NTrain |-> [sq |-> k, sq_std |-> 1]]

\* the parameter values an optimizer step can leave
Theta == {0, 1, 2}

\* per parameter value: the loss of an item and the error of its prediction
ItemLoss == <<1, 2, 10000>>
PredictionError == <<2, 3, 0>>

\* net(data, train): outputs[0] (loss) and outputs[3] (predicted quality),
\* with the mode and the parameters the pass ran in
NetCall(n, data, train) ==
    [loss |-> ItemLoss[n.params.theta + 1],
     q |-> data.sq + PredictionError[n.params.theta + 1],
     train |-> train, training |-> n.training, params |-> n.params]

\* a file left in models/ or results/ by an earlier run
Stale == << [run |-> "previous", params |-> [id |-> 0, theta |-> 0]] >>

VARIABLES
    conf,               \* n_epochs, test_ratio, test_during_training
    model,              \* conf['model'], a string
    pc,                 \* position in the script
    epoch,              \* loop variable of the epoch loop, -1 while unbound
    it,                 \* position of the running enumerate()
    i,                  \* loop variable of the batch / item loops
    step,
    L,
    train_loss,
    net,                \* the network: mode and parameters
    ops,                \* calls made on net / optimizer in the running batch
    outputs,            \* result of the last forward pass
    q, sq, sq_std,
    val_loss, val_RMSE, val_OR,
    test_loss, RMSE, OR,
    measure_values,
    best_val_criterion,
    stdout,             \* the last block printed
    resultTxt,          \* save_result_file + '.txt'
    resultNpy,          \* save_result_file + '.npy'
    stateDictFile,      \* trained_model_file
    fullFile,           \* trained_model_file + '.full'
    valLog              \* history: per validation run its epoch, val_loss,
                        \* val_OR and the parameters it was measured on

ctl == <<conf, model, pc, epoch, it, i, step>>
ctl_but_pc == <<conf, model, epoch, it, i, step>>
trainVars == <<L, train_loss, net, ops, outputs>>
evalVars == <<q, sq, sq_std, val_loss, val_RMSE, val_OR, test_loss, RMSE, OR,
              measure_values, valLog>>
files == <<best_val_criterion, stdout, resultTxt, resultNpy, stateDictFile, fullFile>>
vars == <<ctl, trainVars, evalVars, files>>

\* test_ratio > 0 and conf['test_during_training']
TestDuringTraining == conf.test_ratio > 0 /\ conf.test_during_training

\* ------------------------------------------------------------------- Init
\* lines 39-104: configuration, loaders, network, output files, counters
Init ==
    /\ conf \in [n_epochs : 0..MaxEpochs, test_ratio : {0, 1},
                 test_during_training : BOOLEAN]
    /\ model = "WaDIQaM-NR"
    /\ pc = "ForEpoch"
    /\ epoch = -1
    /\ it = 0
    /\ i = -1
    /\ step = 1
    /\ L = 0
    /\ train_loss = Undef
    /\ \E t \in Theta : net = [training |-> TRUE, params |-> [id |-> 0, theta |-> t]]
    /\ ops = <<>>
    /\ outputs = Undef
    /\ q = <<>> /\ sq = <<>> /\ sq_std = <<>>
    /\ val_loss = Undef /\ val_RMSE = Undef /\ val_OR = Undef
    /\ test_loss = Undef /\ RMSE = Undef /\ OR = Undef
    /\ measure_values = Undef
    /\ best_val_criterion = Div(InitialBest, 1)
    /\ stdout = Undef
    /\ resultTxt = Undef
    /\ resultNpy = Undef
    /\ stateDictFile \in {Undef, Stale}
    /\ fullFile = stateDictFile
    /\ valLog = <<>>

\* ------------------------------------------------------------ epoch loop
\* ForEpoch running one epoch too many
ForEpoch_OffByOne ==
    /\ pc = "ForEpoch"
    /\ IF epoch + 1 <= conf.n_epochs
       THEN /\ epoch' = epoch + 1
            /\ pc' = "NetTrain"
       ELSE /\ epoch' = epoch
            /\ pc' = "FinalTest"
    /\ UNCHANGED <<conf, model, it, i, step, trainVars, evalVars, files>>

\* line 105: for epoch in range(conf['n_epochs'])
ForEpoch ==
    /\ pc = "ForEpoch"
    /\ IF epoch + 1 < conf.n_epochs
       THEN /\ epoch' = epoch + 1
            /\ pc' = "NetTrain"
       ELSE /\ epoch' = epoch
            /\ pc' = "FinalTest"
    /\ UNCHANGED <<conf, model, it, i, step, trainVars, evalVars, files>>

\* lines 107-108: net.train(); L = 0; the batch loop starts
NetTrain ==
    /\ pc = "NetTrain"
    /\ net' = [net EXCEPT !.training = TRUE]
    /\ L' = 0
    /\ it' = 0
    /\ pc' = "ForBatch"
    /\ UNCHANGED <<conf, model, epoch, i, step, train_loss, ops, outputs,
                   evalVars, files>>

\* line 109: for i, data in enumerate(trainloader, 0);
\* line 117 when the loader is exhausted: train_loss = L / (i + 1)
ForBatch ==
    /\ pc = "ForBatch"
    /\ IF it < NTrain
       THEN /\ i' = it
            /\ it' = it + 1
            /\ ops' = <<>>
            /\ train_loss' = train_loss
            /\ pc' = "ZeroGrad"
       ELSE /\ train_loss' = Div(L, i + 1)
            /\ UNCHANGED <<i, it, ops>>
            /\ pc' = "NetEval"
    /\ UNCHANGED <<conf, model, epoch, step, L, net, outputs, evalVars, files>>

\* line 110: optimizer.zero_grad()
ZeroGrad ==
    /\ pc = "ZeroGrad"
    /\ ops' = Append(ops, "zero_grad")
    /\ pc' = "Forward"
    /\ UNCHANGED <<conf, model, epoch, it, i, step, L, train_loss, net, outputs,
                   evalVars, files>>

\* lines 111-113: outputs = net(data, train=True); loss = outputs[0]; L += loss
Forward ==
    /\ pc = "Forward"
    /\ outputs' = << NetCall(net, trainloader[i + 1], TRUE) >>
    /\ L' = L + outputs'[1].loss
    /\ ops' = Append(ops, "forward")
    /\ pc' = "Backward"
    /\ UNCHANGED <<conf, model, epoch, it, i, step, train_loss, net,
                   evalVars, files>>

\* line 114: loss.backward()
Backward ==
    /\ pc = "Backward"
    /\ ops' = Append(ops, "backward")
    /\ pc' = "OptimizerStep"
    /\ UNCHANGED <<conf, model, epoch, it, i, step, L, train_loss, net, outputs,
                   evalVars, files>>

\* lines 115-116: optimizer.step(); step += 1
OptimizerStep ==
    /\ pc = "OptimizerStep"
    /\ \E t \in Theta :
          net' = [net EXCEPT !.params = [id |-> @.id + 1, theta |-> t]]
    /\ ops' = Append(ops, "step")
    /\ step' = step + 1
    /\ pc' = "ForBatch"
    /\ UNCHANGED <<conf, model, epoch, it, i, L, train_loss, outputs,
                   evalVars, files>>

\* NetEval without the call of net.eval()
NetEval_ModeKept ==
    /\ pc = "NetEval"
    /\ L' = 0
    /\ q' = <<>> /\ sq' = <<>> /\ sq_std' = <<>>
    /\ it' = 0
    /\ pc' = "ForVal"
    /\ UNCHANGED <<conf, model, epoch, i, step, train_loss, net, ops, outputs,
                   val_loss, val_RMSE, val_OR, test_loss, RMSE, OR,
                   measure_values, valLog, files>>

\* lines 119-124: net.eval(); L = 0; q = []; sq = []; sq_std = []
NetEval ==
    /\ pc = "NetEval"
    /\ net' = [net EXCEPT !.training = FALSE]
    /\ L' = 0
    /\ q' = <<>> /\ sq' = <<>> /\ sq_std' = <<>>
    /\ it' = 0
    /\ pc' = "ForVal"
    /\ UNCHANGED <<conf, model, epoch, i, step, train_loss, ops, outputs,
                   val_loss, val_RMSE, val_OR, test_loss, RMSE, OR,
                   measure_values, valLog, files>>

\* lines 125-130: for i, data in enumerate(valloader, 0): one item
ForVal ==
    /\ pc = "ForVal"
    /\ IF it < NVal
       THEN /\ i' = it
            /\ it' = it + 1
            /\ sq' = Append(sq, valloader[it + 1].sq)
            /\ sq_std' = Append(sq_std, valloader[it + 1].sq_std)
            /\ outputs' = << NetCall(net, valloader[it + 1], FALSE) >>
            /\ L' = L + outputs'[1].loss
            /\ q' = Append(q, outputs'[1].q)
            /\ pc' = "ForVal"
       ELSE /\ UNCHANGED <<i, it, sq, sq_std, outputs, L, q>>
            /\ pc' = "ValMeasure"
    /\ UNCHANGED <<conf, model, epoch, step, train_loss, net, ops,
                   val_loss, val_RMSE, val_OR, test_loss, RMSE, OR,
                   measure_values, valLog, files>>

\* lines 131-133: val_loss = L[0]/(i+1); measure_values = measure(sq, q, sq_std)
ValMeasure ==
    /\ pc = "ValMeasure"
    /\ val_loss' = Div(L, i + 1)
    /\ measure_values' = measure(sq, q, sq_std)
    /\ val_RMSE' = measure_values'[1]
    /\ val_OR' = measure_values'[2]
    /\ valLog' = Append(valLog, [epoch |-> epoch, val_loss |-> val_loss',
                                 val_OR |-> val_OR', params |-> net.params])
    /\ pc' = "TestGuard"
    /\ UNCHANGED <<ctl_but_pc, trainVars, q, sq, sq_std, test_loss, RMSE, OR, files>>

\* TestGuard that keeps the lists of the validation run
TestGuard_NoReset ==
    /\ pc = "TestGuard"
    /\ IF TestDuringTraining
       THEN /\ L' = 0
            /\ UNCHANGED <<q, sq, sq_std>>
            /\ it' = 0
            /\ pc' = "ForTest"
       ELSE /\ UNCHANGED <<L, q, sq, sq_std, it>>
            /\ pc' = "UpdateGuard"
    /\ UNCHANGED <<conf, model, epoch, i, step, train_loss, net, ops, outputs,
                   val_loss, val_RMSE, val_OR, test_loss, RMSE, OR,
                   measure_values, valLog, files>>

\* lines 136-140: if test_ratio > 0 and conf['test_during_training']: reset
TestGuard ==
    /\ pc = "TestGuard"
    /\ IF TestDuringTraining
       THEN /\ L' = 0
            /\ q' = <<>> /\ sq' = <<>> /\ sq_std' = <<>>
            /\ it' = 0
            /\ pc' = "ForTest"
       ELSE /\ UNCHANGED <<L, q, sq, sq_std, it>>
            /\ pc' = "UpdateGuard"
    /\ UNCHANGED <<conf, model, epoch, i, step, train_loss, net, ops, outputs,
                   val_loss, val_RMSE, val_OR, test_loss, RMSE, OR,
                   measure_values, valLog, files>>

\* lines 141-146: for i, data in enumerate(testloader, 0): one item
ForTest ==
    /\ pc = "ForTest"
    /\ IF it < NTest
       THEN /\ i' = it
            /\ it' = it + 1
            /\ sq' = Append(sq, testloader[it + 1].sq)
            /\ sq_std' = Append(sq_std, testloader[it + 1].sq_std)
            /\ outputs' = << NetCall(net, testloader[it + 1], FALSE) >>
            /\ L' = L + outputs'[1].loss
            /\ q' = Append(q, outputs'[1].q)
            /\ pc' = "ForTest"
       ELSE /\ UNCHANGED <<i, it, sq, sq_std, outputs, L, q>>
            /\ pc' = "TestMeasure"
    /\ UNCHANGED <<conf, model, epoch, step, train_loss, net, ops,
                   val_loss, val_RMSE, val_OR, test_loss, RMSE, OR,
                   measure_values, valLog, files>>

\* lines 147-149: test_loss = L[0]/(i+1); measure_values = measure(sq, q, sq_std)
TestMeasure ==
    /\ pc = "TestMeasure"
    /\ test_loss' = Div(L, i + 1)
    /\ measure_values' = measure(sq, q, sq_std)
    /\ RMSE' = measure_values'[1]
    /\ OR' = measure_values'[2]
    /\ pc' = "UpdateGuard"
    /\ UNCHANGED <<ctl_but_pc, trainVars, q, sq, sq_std, val_loss, val_RMSE,
                   val_OR, valLog, files>>

\* lines 172-213: the guard of the update, the printed block, the result
\* text file (opened with 'w') and, with the in-epoch test, the .npy file
UpdateGuard ==
    /\ pc = "UpdateGuard"
    /\ IF UpdateCondition(val_loss, best_val_criterion, epoch, conf.n_epochs)
       THEN /\ stdout' = << [epoch |-> epoch,
                             val |-> ValLine(val_loss, val_OR),
                             test |-> IF TestDuringTraining
                                      THEN << TestLine(test_loss, val_OR) >>
                                      ELSE <<>>] >>
            /\ resultTxt' = stdout'
            /\ resultNpy' = IF TestDuringTraining
                            THEN << [phase |-> "epoch", sq |-> sq,
                                     sq_std |-> sq_std, q |-> q,
                                     test_loss |-> test_loss, RMSE |-> RMSE,
                                     OR |-> OR] >>
                            ELSE resultNpy
            /\ pc' = "SaveStateDict"
       ELSE /\ UNCHANGED <<stdout, resultTxt, resultNpy>>
            /\ pc' = "ForEpoch"
    /\ UNCHANGED <<ctl_but_pc, trainVars, evalVars, best_val_criterion,
                   stateDictFile, fullFile>>

\* line 215: torch.save(net.state_dict(), trained_model_file)
SaveStateDict ==
    /\ pc = "SaveStateDict"
    /\ stateDictFile' = << [run |-> "this", params |-> net.params] >>
    /\ pc' = "SaveFull"
    /\ UNCHANGED <<ctl_but_pc, trainVars, evalVars, best_val_criterion, stdout,
                   resultTxt, resultNpy, fullFile>>

\* SaveFull that writes nothing
SaveFull_Skipped ==
    /\ pc = "SaveFull"
    /\ pc' = "UpdateBest"
    /\ UNCHANGED <<ctl_but_pc, trainVars, evalVars, files>>

\* line 216: torch.save(net, trained_model_file + '.full')
SaveFull ==
    /\ pc = "SaveFull"
    /\ fullFile' = << [run |-> "this", params |-> net.params] >>
    /\ pc' = "UpdateBest"
    /\ UNCHANGED <<ctl_but_pc, trainVars, evalVars, best_val_criterion, stdout,
                   resultTxt, resultNpy, stateDictFile>>

\* UpdateBest that leaves best_val_criterion as it was
UpdateBest_Forgotten ==
    /\ pc = "UpdateBest"
    /\ pc' = "ForEpoch"
    /\ UNCHANGED <<ctl_but_pc, trainVars, evalVars, files>>

\* line 217: best_val_criterion = val_loss
UpdateBest ==
    /\ pc = "UpdateBest"
    /\ best_val_criterion' = val_loss
    /\ pc' = "ForEpoch"
    /\ UNCHANGED <<ctl_but_pc, trainVars, evalVars, stdout, resultTxt,
                   resultNpy, stateDictFile, fullFile>>

\* ------------------------------------------------------------- final test
\* line 220: if test_ratio > 0
FinalTest ==
    /\ pc = "FinalTest"
    /\ pc' = IF conf.test_ratio > 0 THEN "LoadStateDict" ELSE "done"
    /\ UNCHANGED <<ctl_but_pc, trainVars, evalVars, files>>

\* line 221: model.load_state_dict(torch.load(trained_model_file)).  model is
\* the string conf['model'] (line 48); the network is net.  Evaluating the
\* attribute model.load_state_dict raises AttributeError before torch.load is
\* called, and the script ends there: lines 222-249 are never executed.
LoadStateDict ==
    /\ pc = "LoadStateDict"
    /\ pc' = "AttributeError"
    /\ UNCHANGED <<ctl_but_pc, trainVars, evalVars, files>>

Next ==
    \/ ForEpoch \/ NetTrain \/ ForBatch \/ ZeroGrad \/ Forward \/ Backward
    \/ OptimizerStep \/ NetEval \/ ForVal \/ ValMeasure \/ TestGuard
    \/ ForTest \/ TestMeasure \/ UpdateGuard \/ SaveStateDict \/ SaveFull
    \/ UpdateBest \/ FinalTest \/ LoadStateDict

Spec == Init /\ [][Next]_vars

TypeOK == pc \in {"ForEpoch", "NetTrain", "ForBatch", "ZeroGrad", "Forward",
                  "Backward", "OptimizerStep", "NetEval", "ForVal", "ValMeasure",
                  "TestGuard", "ForTest", "TestMeasure", "UpdateGuard",
                  "SaveStateDict", "SaveFull", "UpdateBest", "FinalTest",
                  "LoadStateDict", "AttributeError", "done"}

\* ------------------------------------------------- measure as a function
\* measure applied to every triple of equal-length sequences of length
\* 1..MaxLen over small values
MeasureInputs ==
    UNION { [1..n -> {2, 3}] \X [1..n -> {0, 1, 2}] \X [1..n -> {0, 1}] :
            n \in 1..MaxLen }

InitMeasure ==
    /\ \E in \in MeasureInputs : sq = in[1] /\ q = in[2] /\ sq_std = in[3]
    /\ pc = "measure"
    /\ measure_values = Undef
    /\ conf = [n_epochs |-> 0, test_ratio |-> 0, test_during_training |-> FALSE]
    /\ model = "WaDIQaM-NR"
    /\ epoch = -1 /\ it = 0 /\ i = -1 /\ step = 1 /\ L = 0
    /\ train_loss = Undef
    /\ net = [training |-> TRUE, params |-> [id |-> 0, theta |-> 0]]
    /\ ops = <<>>
    /\ outputs = Undef
    /\ val_loss = Undef /\ val_RMSE = Undef /\ val_OR = Undef
    /\ test_loss = Undef /\ RMSE = Undef /\ OR = Undef
    /\ best_val_criterion = Div(InitialBest, 1)
    /\ stdout = Undef /\ resultTxt = Undef /\ resultNpy = Undef
    /\ stateDictFile = Undef /\ fullFile = Undef
    /\ valLog = <<>>

\* lines 26-36: one call of measure
CallMeasure ==
    /\ pc = "measure"
    /\ measure_values' = measure(sq, q, sq_std)
    /\ pc' = "measured"
    /\ UNCHANGED <<ctl_but_pc, trainVars, q, sq, sq_std, val_loss, val_RMSE,
                   val_OR, test_loss, RMSE, OR, valLog, files>>

SpecMeasure == InitMeasure /\ [][CallMeasure]_vars

\* ------------------------------------------------------------------ claims
AfterLoop == pc \in {"FinalTest", "LoadStateDict", "AttributeError", "done"}

Ended == pc \in {"AttributeError", "done"}

\* epoch e of a run of n epochs is past the warm-up
PastWarmup(e, n) == WarmupDivisor * e > n

Below(x, y) == x[1] * y[2] < y[1] * x[2]

\* the validation runs that can give a checkpoint: past the warm-up and
\* with a loss below the initial criterion
Eligible ==
    { k \in 1..Len(valLog) :
        /\ PastWarmup(valLog[k].epoch, conf.n_epochs)
        /\ Below(valLog[k].val_loss, <<InitialBest, 1>>) }

\* the validation runs in which the criterion improved strictly
UpdateRuns ==
    { k \in Eligible :
        \A j \in Eligible : j < k => Below(valLog[k].val_loss, valLog[j].val_loss) }

Largest(S) == CHOOSE k \in S : \A j \in S : j <= k

\* the first validation run that attains the least loss among the eligible
FirstBest ==
    CHOOSE k \in Eligible :
        \A j \in Eligible :
            \/ Below(valLog[k].val_loss, valLog[j].val_loss)
            \/ (~Below(valLog[j].val_loss, valLog[k].val_loss) /\ k <= j)

CheckpointOf(k) == << [run |-> "this", params |-> valLog[k].params] >>

\* C1 as stated: after the epoch loop of a run with n_epochs >= 1, both
\* checkpoint files hold the parameters of an epoch whose validation loss is
\* the least over all epochs run.
C1_BestOfAllEpochs ==
    (AfterLoop /\ conf.n_epochs >= 1) =>
        \E k \in 1..Len(valLog) :
            /\ \A j \in 1..Len(valLog) :
                  ~Below(valLog[j].val_loss, valLog[k].val_loss)
            /\ stateDictFile = CheckpointOf(k)
            /\ fullFile = CheckpointOf(k)

\* C1 amended: after the epoch loop, if some epoch past the warm-up
\* (index > n_epochs/6) had a validation loss below 10000, both checkpoint
\* files hold the parameters of the first epoch that attains the least
\* validation loss among those epochs; otherwise the run has written no
\* checkpoint.
C1_BestOfEligibleEpochs ==
    AfterLoop =>
        IF Eligible = {}
        THEN stateDictFile \in {Undef, Stale} /\ fullFile = stateDictFile
        ELSE stateDictFile = CheckpointOf(FirstBest)
             /\ fullFile = CheckpointOf(FirstBest)

\* C1 witness: a finished loop whose checkpoint is not the last epoch's
\* parameters and in which a warm-up epoch had a strictly lower loss
C1_Witness ==
    /\ pc = "done"
    /\ Eligible # {}
    /\ stateDictFile = CheckpointOf(FirstBest)
    /\ stateDictFile[1].params # net.params
    /\ \E j \in 1..Len(valLog) :
          Below(valLog[j].val_loss, valLog[FirstBest].val_loss)

\* C2 as stated: a run with test_ratio > 0 ends with the test split
\* evaluated on the parameters of the checkpoint this run wrote, and the
\* saved metrics are those of that evaluation.
C2_FinalTestUsesCheckpoint ==
    (Ended /\ conf.test_ratio > 0) =>
        /\ stateDictFile # Undef
        /\ outputs # Undef
        /\ ~outputs[1].train
        /\ outputs[1].params = stateDictFile[1].params
        /\ resultNpy # Undef
        /\ resultNpy[1].phase = "final"
        /\ resultNpy[1].q = q
        /\ resultNpy[1].OR = OR

\* C3: every epoch validates exactly once, on the parameters left by all the
\* training batches of that epoch; while epoch e trains or validates, e
\* validations are complete; after the loop there are n_epochs of them.
C3_OneValidationPerEpoch ==
    /\ \A k \in 1..Len(valLog) :
          /\ valLog[k].epoch = k - 1
          /\ valLog[k].params.id = k * NTrain
    /\ pc \in {"NetTrain", "ForBatch", "ZeroGrad", "Forward", "Backward",
               "OptimizerStep", "NetEval"} => Len(valLog) = epoch
    /\ pc \in {"ForVal", "ValMeasure"} =>
          Len(valLog) = epoch /\ net.params.id = (epoch + 1) * NTrain
    /\ pc \in {"TestGuard", "ForTest", "TestMeasure", "UpdateGuard",
               "SaveStateDict", "SaveFull", "UpdateBest", "ForEpoch"} =>
          Len(valLog) = epoch + 1
    /\ AfterLoop => Len(valLog) = conf.n_epochs

C3_Witness ==
    /\ pc = "done"
    /\ conf.n_epochs >= 2
    /\ Len(valLog) = conf.n_epochs
    /\ step = conf.n_epochs * NTrain + 1

\* one entry per item of the split, in loader order, and nothing else
FullSplit(loader) ==
    /\ sq = [k \in 1..Len(loader) |-> loader[k].sq]
    /\ sq_std = [k \in 1..Len(loader) |-> loader[k].sq_std]
    /\ q = [k \in 1..Len(loader) |-> NetCall(net, loader[k], FALSE).q]

\* C4: at every call of measure the three lists hold exactly the items of
\* the split being evaluated, in loader order.
C4_ListsAreTheSplit ==
    /\ pc = "ValMeasure" => FullSplit(valloader)
    /\ pc = "TestMeasure" => FullSplit(testloader)

C4_Witness ==
    /\ pc = "TestMeasure"
    /\ epoch >= 1
    /\ Len(sq) = NTest /\ Len(q) = NTest /\ Len(sq_std) = NTest
    /\ sq # [k \in 1..NVal |-> valloader[k].sq]

Outliers(a, b, c) == { k \in 1..Len(a) : Abs(a[k] - b[k]) > 2 * c[k] }

\* C5: the outlier ratio of measure is the number of items whose error is
\* strictly above twice their sq_std, over the number of items; it is
\* between 0 and 1; an item whose error is exactly twice its sq_std does not
\* count.
C5_OutlierRatio ==
    pc = "measured" =>
        /\ measure_values[2] = << Cardinality(Outliers(sq, q, sq_std)), Len(sq) >>
        /\ 0 <= measure_values[2][1]
        /\ measure_values[2][1] <= measure_values[2][2]
        /\ (\A k \in 1..Len(sq) : Abs(sq[k] - q[k]) = 2 * sq_std[k]) =>
              measure_values[2][1] = 0

C5_Witness ==
    /\ pc = "measured"
    /\ Len(sq) >= 2
    /\ \E k \in 1..Len(sq) : Abs(sq[k] - q[k]) = 2 * sq_std[k]
    /\ \E k \in 1..Len(sq) : Abs(sq[k] - q[k]) > 2 * sq_std[k]
    /\ measure_values[2][1] = 1
\* the update block has started in this step or is under way
InUpdate == pc \in {"UpdateGuard", "SaveStateDict", "SaveFull", "UpdateBest"}

Improved == PastWarmup(epoch, conf.n_epochs) /\ Below(val_loss, best_val_criterion)

\* C6: an epoch writes the result text file and the two checkpoint files and
\* assigns best_val_criterion := val_loss if and only if its index is above
\* n_epochs/6 and its val_loss is strictly below best_val_criterion; nothing
\* is written in the warm-up or on an equal loss; best_val_criterion never
\* increases and never exceeds 10000.
C6_UpdateIffImproved ==
    [][ /\ (pc = "UpdateGuard" /\ Improved) =>
               /\ pc' = "SaveStateDict"
               /\ resultTxt' # Undef /\ resultTxt'[1].epoch = epoch
        /\ (pc = "UpdateGuard" /\ ~Improved) =>
               /\ pc' = "ForEpoch"
               /\ UNCHANGED <<resultTxt, stateDictFile, fullFile, best_val_criterion>>
        /\ <<resultTxt, stateDictFile, fullFile, best_val_criterion>>' #
           <<resultTxt, stateDictFile, fullFile, best_val_criterion>> =>
               InUpdate /\ Improved
        /\ (pc = "UpdateBest" /\ pc' = "ForEpoch") =>
               /\ best_val_criterion' = val_loss
               /\ stateDictFile' = << [run |-> "this", params |-> net.params] >>
               /\ fullFile' = stateDictFile'
               /\ resultTxt'[1].epoch = epoch
        /\ ~Below(best_val_criterion, best_val_criterion')
        /\ ~Below(<<InitialBest, 1>>, best_val_criterion')
      ]_vars

\* C6 witness: an epoch past the warm-up whose loss equals the criterion has
\* ended and the checkpoint of an earlier epoch is still in place
C6_Witness ==
    /\ pc = "ForEpoch"
    /\ epoch >= 2
    /\ stateDictFile # Undef
    /\ stateDictFile[1].run = "this"
    /\ stateDictFile[1].params # net.params
    /\ best_val_criterion = val_loss
    /\ \E j \in 1..Len(valLog) : ~PastWarmup(valLog[j].epoch, conf.n_epochs)

\* C7 as stated: when the final test phase reaches the load, this run has
\* written trained_model_file.
C7_CheckpointWrittenBeforeLoad ==
    pc = "LoadStateDict" =>
        stateDictFile # Undef /\ stateDictFile[1].run = "this"

\* C8 as stated: a "Test results" line reports the loss and the outlier
\* ratio of one and the same evaluation of the test split.
C8_TestLineReportsTestOR ==
    /\ (pc = "SaveStateDict" /\ stdout[1].test # <<>>) =>
          stdout[1].test[1] = [loss |-> Format4(test_loss), OR |-> Format4(OR)]
    /\ (resultTxt # Undef /\ resultTxt[1].test # <<>>) =>
          /\ resultNpy # Undef
          /\ resultTxt[1].test[1] = [loss |-> Format4(resultNpy[1].test_loss),
                                     OR |-> Format4(resultNpy[1].OR)]

\* C9: at every epoch boundary after an update, the two checkpoint files,
\* the epoch and validation metrics of the result text file and
\* best_val_criterion all belong to the most recent epoch that updated.
C9_ArtifactsOfOneEpoch ==
    (pc = "ForEpoch" /\ UpdateRuns # {}) =>
        LET k == Largest(UpdateRuns) IN
        /\ stateDictFile = CheckpointOf(k)
        /\ fullFile = CheckpointOf(k)
        /\ resultTxt # Undef
        /\ resultTxt[1].epoch = valLog[k].epoch
        /\ resultTxt[1].val = [loss |-> Format4(valLog[k].val_loss),
                               OR |-> Format4(valLog[k].val_OR)]
        /\ best_val_criterion = valLog[k].val_loss

C9_Witness ==
    /\ pc = "ForEpoch"
    /\ Cardinality(UpdateRuns) >= 2
    /\ Largest(UpdateRuns) < Len(valLog)
    /\ fullFile = CheckpointOf(Largest(UpdateRuns))

BatchOrder == <<"zero_grad", "forward", "backward", "step">>

\* C10: the network is in training mode in every training pass and optimizer
\* step and in evaluation mode in every pass over the validation or test
\* split; the calls of a batch are zero_grad, forward, backward, step, in
\* this order.
C10_ModesAndBatchOrder ==
    /\ outputs # Undef => (outputs[1].train <=> outputs[1].training)
    /\ pc \in {"ZeroGrad", "Forward", "Backward", "OptimizerStep"} => net.training
    /\ pc \in {"ForVal", "ValMeasure", "ForTest", "TestMeasure"} => ~net.training
    /\ ops = SubSeq(BatchOrder, 1, Len(ops))
    /\ (pc = "ForBatch" /\ it > 0) => (ops = BatchOrder /\ net.training)
    /\ pc = "OptimizerStep" => ops = SubSeq(BatchOrder, 1, 3)

C10_Witness ==
    /\ pc = "ForTest"
    /\ it = NTest
    /\ epoch >= 1
    /\ ~outputs[1].train /\ ~outputs[1].training
    /\ ops = BatchOrder
====
